---- MODULE Spec2Model ----
(***************************************************************************)
(* Multi-threaded producer/consumer with priorities.                       *)
(*                                                                         *)
(* producer_consumer.py: PriorityItem, PriorityBuffer (a heap guarded by   *)
(* two counting semaphores and a lock), the Producer and Consumer threads  *)
(* and run_simulation.  app.py: the controller (start_system, stop_system, *)
(* add_item, monitor_buffer) over module-level globals.                    *)
(*                                                                         *)
(* Every thread is a record with a program counter.  For run_simulation   *)
(* one action is one statement that touches shared state (a semaphore,    *)
(* the lock, the heap, a counter, a running flag), together with the      *)
(* thread-local statements that follow it.  For the controller a produce  *)
(* or consume call is one action, and start_system is two: its test of    *)
(* system_running and the rest.                                           *)
(***************************************************************************)
EXTENDS Integers, Sequences, FiniteSets, TLC

VARIABLES
    buffer,          \* app.py global `buffer` / run_simulation local: index into bufs, 0 = None
    producers,       \* app.py global `producers`: set of producer thread ids
    consumers,       \* app.py global `consumers`: set of consumer thread ids
    system_running,  \* app.py global `system_running`
    bufs,            \* every PriorityBuffer object constructed so far
    threads,         \* every thread started so far: tid -> thread record
    clock,           \* time.time()
    delivered,       \* history: uids of the items consume has returned
    starting,        \* how many start_system calls are past their system_running test
    nstarts,         \* history: how many start_system calls have passed that test
    response         \* the HTTP response the last step sent, if it sent one

vars == <<buffer, producers, consumers, system_running, bufs, threads, clock,
          delivered, starting, nstarts, response>>

--------------------------------------------------------------------------
(* Bounds of the model *)

\* producers + consumers of one run
MaxWorkers == 3
\* items all the producers of one run may produce together
MaxTotalItems == 2
\* buffer_size
MaxBufferSize == 2
\* the last reading of the clock
MaxClock == 1
\* the same of a run whose threads are scheduled fairly
FairMaxWorkers == 2
FairMaxTotalItems == 2
\* the same of one start_system call
AppMaxWorkers == 1
AppMaxTotalItems == 1
AppMaxBufferSize == 1
\* start_system calls that pass the system_running test
MaxStarts == 2
\* add_item calls that start a thread
MaxManual == 1

--------------------------------------------------------------------------
(* class Priority(IntEnum) *)

CRITICAL == 1
HIGH == 2
MEDIUM == 3
LOW == 4

Priority == {CRITICAL, HIGH, MEDIUM, LOW}

PriorityNames == {"CRITICAL", "HIGH", "MEDIUM", "LOW"}

\* What Priority[name] gives for a name that is no member: it raises KeyError
KeyError == 0

\* Mutant of PriorityByName: a lookup that falls back to MEDIUM
MutantPriorityByName(name) ==
    CASE name = "CRITICAL" -> CRITICAL
      [] name = "HIGH" -> HIGH
      [] name = "LOW" -> LOW
      [] OTHER -> MEDIUM

\* Priority[priority_name]: the enum lookup of add_item
PriorityByName(name) ==
    CASE name = "CRITICAL" -> CRITICAL
      [] name = "HIGH" -> HIGH
      [] name = "MEDIUM" -> MEDIUM
      [] name = "LOW" -> LOW
      [] OTHER -> KeyError

--------------------------------------------------------------------------
(* Strings are sequences of code points, compared as Python compares str *)

RECURSIVE Digits(_)
Digits(n) == IF n < 10 THEN <<48 + n>> ELSE Digits(n \div 10) \o <<48 + (n % 10)>>

\* f"Producer-{self.producer_id}-Item-{self.item_counter}"
ProducerData(producer_id, item_counter) ==
    <<80, 114, 111, 100, 117, 99, 101, 114, 45>> \o Digits(producer_id)
        \o <<45, 73, 116, 101, 109, 45>> \o Digits(item_counter)

\* data.get('data', 'Manual item'): the default payload
ManualData == { <<77, 97, 110, 117, 97, 108, 32, 105, 116, 101, 109>> }

RECURSIVE StrLess(_, _)
StrLess(a, b) ==
    IF b = <<>> THEN FALSE
    ELSE IF a = <<>> THEN TRUE
    ELSE IF a[1] # b[1] THEN a[1] < b[1]
    ELSE StrLess(Tail(a), Tail(b))

--------------------------------------------------------------------------
(* @dataclass(order=True) class PriorityItem *)

NoItem == [priority |-> 0, item_id |-> 0, data |-> <<>>, timestamp |-> 0, uid |-> <<>>,
           after |-> {}]

\* PriorityItem(priority, item_id, data): timestamp defaults to time.time().
\* Two fields are history, read by no comparison and no operation: uid, the
\* identity of the Python object, and after, the items of the same priority that
\* a completed produce had left in the buffer when the produce of this one began.
PriorityItem(priority, item_id, data, now, uid, after) ==
    [priority |-> priority, item_id |-> item_id, data |-> data, timestamp |-> now,
     uid |-> uid, after |-> after]

\* Mutant of ItemLess: the fields declared in the order item_id, priority
MutantItemLess(a, b) ==
    IF a.item_id # b.item_id THEN a.item_id < b.item_id
    ELSE IF a.priority # b.priority THEN a.priority < b.priority
    ELSE IF a.data # b.data THEN StrLess(a.data, b.data)
    ELSE a.timestamp < b.timestamp

\* The generated __lt__: the tuples (priority, item_id, data, timestamp) compared
ItemLess(a, b) ==
    IF a.priority # b.priority THEN a.priority < b.priority
    ELSE IF a.item_id # b.item_id THEN a.item_id < b.item_id
    ELSE IF a.data # b.data THEN StrLess(a.data, b.data)
    ELSE a.timestamp < b.timestamp

--------------------------------------------------------------------------
(* queue.PriorityQueue: heapq on a list (index 1 here is index 0 there) *)

RECURSIVE SiftDown(_, _, _, _)
\* heapq._siftdown(heap, startpos, pos) with newitem = heap[pos] taken out
SiftDown(heap, startpos, pos, newitem) ==
    IF pos > startpos /\ ItemLess(newitem, heap[pos \div 2])
    THEN SiftDown([heap EXCEPT ![pos] = heap[pos \div 2]], startpos, pos \div 2, newitem)
    ELSE [heap EXCEPT ![pos] = newitem]

RECURSIVE SiftUp(_, _, _)
\* heapq._siftup(heap, pos): bubble the smaller child up to a leaf, then sift down
SiftUp(heap, pos, newitem) ==
    LET childpos == 2 * pos
        rightpos == childpos + 1
        endpos == Len(heap)
        smaller == IF rightpos <= endpos /\ ~ItemLess(heap[childpos], heap[rightpos])
                   THEN rightpos ELSE childpos
    IN IF childpos <= endpos
       THEN SiftUp([heap EXCEPT ![pos] = heap[smaller]], smaller, newitem)
       ELSE SiftDown(heap, 1, pos, newitem)

\* heapq.heappush(heap, item)
HeapPush(heap, item) == SiftDown(Append(heap, item), 1, Len(heap) + 1, item)

\* heapq.heappop(heap): the item returned
HeapTop(heap) == heap[1]

\* heapq.heappop(heap): the heap left
HeapPop(heap) ==
    LET lastelt == heap[Len(heap)]
        rest == SubSeq(heap, 1, Len(heap) - 1)
    IN IF rest = <<>> THEN rest ELSE SiftUp(rest, 1, lastelt)

--------------------------------------------------------------------------
(* class PriorityBuffer *)

NoThread == <<>>

\* Mutant of PriorityBuffer: queue.PriorityQueue() without its maxsize and
\* Semaphore(max_size + 1)
MutantPriorityBuffer(max_size) ==
    [max_size |-> max_size,
     maxsize |-> 0,
     queue |-> <<>>,
     empty_slots |-> max_size + 1,
     filled_slots |-> 0,
     mutex |-> NoThread,
     total_produced |-> 0,
     total_consumed |-> 0,
     items_by_priority |-> [p \in Priority |-> 0]]

\* PriorityBuffer.__init__
PriorityBuffer(max_size) ==
    [max_size |-> max_size,
     maxsize |-> max_size,
     queue |-> <<>>,
     empty_slots |-> max_size,
     filled_slots |-> 0,
     mutex |-> NoThread,
     total_produced |-> 0,
     total_consumed |-> 0,
     items_by_priority |-> [p \in Priority |-> 0]]

\* Mutant of SemaphoreFree: acquire() that never waits
MutantSemaphoreFree(value) == TRUE

\* threading.Semaphore.acquire() returns only when the counter is positive
SemaphoreFree(value) == value > 0

\* Mutant of SemaphoreRelease: the release left out
MutantSemaphoreRelease(value) == value

\* threading.Semaphore.release()
SemaphoreRelease(value) == value + 1

\* Mutant of MutexFree: the operations not serialised by the lock
MutantMutexFree(b) == TRUE

\* threading.Lock: `with self.mutex` enters only when no thread holds it
MutexFree(b) == b.mutex = NoThread

\* PriorityQueue.put(item) waits while a bounded queue is full (maxsize <= 0: unbounded)
PutReady(b) == b.maxsize <= 0 \/ Len(b.queue) < b.maxsize

\* PriorityQueue.get() waits while the queue is empty
GetReady(b) == Len(b.queue) > 0

\* produce: self.buffer.put(item)
BufferPut(b, item) == [b EXCEPT !.queue = HeapPush(@, item)]

\* produce: self.total_produced += 1
CountProduced(b) == [b EXCEPT !.total_produced = @ + 1]

\* Mutant of CountPriority: the per-priority count left out
MutantCountPriority(b, item) == b

\* produce: if item.priority in Priority: self.items_by_priority[...] += 1
CountPriority(b, item) ==
    IF item.priority \in Priority
    THEN [b EXCEPT !.items_by_priority[item.priority] = @ + 1]
    ELSE b

\* Mutant of BufferGet: the head read but left in the queue
MutantBufferGet(b) == b

\* consume: item = self.buffer.get()
BufferGet(b) == [b EXCEPT !.queue = HeapPop(@)]

\* consume: self.total_consumed += 1
CountConsumed(b) == [b EXCEPT !.total_consumed = @ + 1]

NoStats == [size |-> -1, max_size |-> -1, total_produced |-> -1, total_consumed |-> -1,
            items_by_priority |-> [p \in Priority |-> -1]]

\* get_stats: the dictionary built under the mutex
Snapshot(b) ==
    [size |-> Len(b.queue),
     max_size |-> b.max_size,
     total_produced |-> b.total_produced,
     total_consumed |-> b.total_consumed,
     items_by_priority |-> b.items_by_priority]

--------------------------------------------------------------------------
(* Threads *)

\* The answer of a request handler: the request, its input, the answer
Response(request, input, status) == [request |-> request, input |-> input, status |-> status]

NoResponse == Response("none", "", "none")

\* A thread id is <<kind, session, id>>
Thread(kind, buf, pc, id, num_items) ==
    [kind |-> kind, buf |-> buf, pc |-> pc, running |-> TRUE, id |-> id,
     num_items |-> num_items, item_counter |-> 0, item |-> NoItem, stats |-> NoStats]

\* Mutant of Producer: item_counter starting at 1
MutantProducer(producer_id, buf, num_items) ==
    [Thread("producer", buf, "p_loop", producer_id, num_items) EXCEPT !.item_counter = 1]

\* Producer.__init__ and start()
Producer(producer_id, buf, num_items) == Thread("producer", buf, "p_loop", producer_id, num_items)

\* Consumer.__init__ and start()
Consumer(consumer_id, buf) == Thread("consumer", buf, "c_loop", consumer_id, 0)

Tids == DOMAIN threads

Buf(t) == bufs[threads[t].buf]

SetBuf(t, b) == bufs' = [bufs EXCEPT ![threads[t].buf] = b]

\* A step of a thread that is no request handler
NoRequest ==
    /\ response' = NoResponse
    /\ UNCHANGED <<buffer, producers, consumers, system_running, starting, nstarts>>

\* History: the produce call that inserted the item uid has returned
Completed(uid) ==
    IF threads[uid[1]].kind = "producer"
    THEN uid[2] < threads[uid[1]].item_counter
    ELSE threads[uid[1]].pc = "done"

\* History: the items of this priority in the buffer whose produce call has returned
Earlier(b, priority) ==
    {b.queue[i].uid : i \in {j \in DOMAIN b.queue :
                                b.queue[j].priority = priority /\ Completed(b.queue[j].uid)}}

\* Producer.run: the loop test, random.choice(list(Priority)) and the new PriorityItem
\* (track: whether the history field after is recorded)
ProducerStep(t, track) ==
    /\ threads[t].kind = "producer" /\ threads[t].pc = "p_loop"
    /\ IF threads[t].running /\ threads[t].item_counter < threads[t].num_items
       THEN \E priority \in Priority :
              threads' = [threads EXCEPT
                  ![t].item = PriorityItem(priority, threads[t].item_counter,
                                  ProducerData(threads[t].id, threads[t].item_counter),
                                  clock, <<t, threads[t].item_counter>>,
                                  IF track THEN Earlier(Buf(t), priority) ELSE {}),
                  ![t].pc = "p_acquire"]
       ELSE threads' = [threads EXCEPT ![t].pc = "done"]
    /\ UNCHANGED <<bufs, clock, delivered>> /\ NoRequest

ProducerLoop(t) == ProducerStep(t, FALSE)

ProducerLoopTracked(t) == ProducerStep(t, TRUE)

\* Mutant of ProduceAcquire: the mutex taken without waiting for an empty slot
MutantProduceAcquire(t) ==
    /\ threads[t].pc = "p_acquire"
    /\ threads' = [threads EXCEPT ![t].pc = "p_lock"]
    /\ UNCHANGED <<bufs, clock, delivered>> /\ NoRequest

\* produce: self.empty_slots.acquire()
ProduceAcquire(t) ==
    /\ threads[t].pc = "p_acquire"
    /\ SemaphoreFree(Buf(t).empty_slots)
    /\ SetBuf(t, [Buf(t) EXCEPT !.empty_slots = @ - 1])
    /\ threads' = [threads EXCEPT ![t].pc = "p_lock"]
    /\ UNCHANGED <<clock, delivered>> /\ NoRequest

\* produce: with self.mutex (enter)
ProduceLock(t) ==
    /\ threads[t].pc = "p_lock"
    /\ MutexFree(Buf(t))
    /\ SetBuf(t, [Buf(t) EXCEPT !.mutex = t])
    /\ threads' = [threads EXCEPT ![t].pc = "p_put"]
    /\ UNCHANGED <<clock, delivered>> /\ NoRequest

\* produce: self.buffer.put(item)
ProducePut(t) ==
    /\ threads[t].pc = "p_put"
    /\ PutReady(Buf(t))
    /\ SetBuf(t, BufferPut(Buf(t), threads[t].item))
    /\ threads' = [threads EXCEPT ![t].pc = "p_total"]
    /\ UNCHANGED <<clock, delivered>> /\ NoRequest

\* produce: self.total_produced += 1
ProduceTotal(t) ==
    /\ threads[t].pc = "p_total"
    /\ SetBuf(t, CountProduced(Buf(t)))
    /\ threads' = [threads EXCEPT ![t].pc = "p_byprio"]
    /\ UNCHANGED <<clock, delivered>> /\ NoRequest

\* produce: the items_by_priority update, then the mutex is released
ProduceByPriority(t) ==
    /\ threads[t].pc = "p_byprio"
    /\ SetBuf(t, [CountPriority(Buf(t), threads[t].item) EXCEPT !.mutex = NoThread])
    /\ threads' = [threads EXCEPT ![t].item = NoItem, ![t].pc = "p_release"]
    /\ UNCHANGED <<clock, delivered>> /\ NoRequest

\* produce: self.filled_slots.release() and return; Producer.run: item_counter += 1;
\* the thread of add_item ends
ProduceRelease(t) ==
    /\ threads[t].pc = "p_release"
    /\ SetBuf(t, [Buf(t) EXCEPT !.filled_slots = SemaphoreRelease(@)])
    /\ threads' = [threads EXCEPT
          ![t].item_counter = @ + 1,
          ![t].pc = IF threads[t].kind = "producer" THEN "p_loop" ELSE "done"]
    /\ UNCHANGED <<clock, delivered>> /\ NoRequest

\* Mutant of ConsumerLoop: a loop that does not test self.running
MutantConsumerLoop(t) ==
    /\ threads[t].kind = "consumer" /\ threads[t].pc = "c_loop"
    /\ threads' = [threads EXCEPT ![t].pc = "c_acquire"]
    /\ UNCHANGED <<bufs, clock, delivered>> /\ NoRequest

\* Consumer.run: while self.running
ConsumerLoop(t) ==
    /\ threads[t].kind = "consumer" /\ threads[t].pc = "c_loop"
    /\ threads' = [threads EXCEPT
          ![t].pc = IF threads[t].running THEN "c_acquire" ELSE "done"]
    /\ UNCHANGED <<bufs, clock, delivered>> /\ NoRequest

\* Mutant of ConsumeAcquire: an acquire that gives up once the flag is cleared
MutantConsumeAcquire(t) ==
    /\ threads[t].pc = "c_acquire"
    /\ IF threads[t].running
       THEN /\ SemaphoreFree(Buf(t).filled_slots)
            /\ SetBuf(t, [Buf(t) EXCEPT !.filled_slots = @ - 1])
            /\ threads' = [threads EXCEPT ![t].pc = "c_lock"]
       ELSE /\ threads' = [threads EXCEPT ![t].pc = "done"]
            /\ UNCHANGED bufs
    /\ UNCHANGED <<clock, delivered>> /\ NoRequest

\* consume: self.filled_slots.acquire()
ConsumeAcquire(t) ==
    /\ threads[t].pc = "c_acquire"
    /\ SemaphoreFree(Buf(t).filled_slots)
    /\ SetBuf(t, [Buf(t) EXCEPT !.filled_slots = @ - 1])
    /\ threads' = [threads EXCEPT ![t].pc = "c_lock"]
    /\ UNCHANGED <<clock, delivered>> /\ NoRequest

\* consume: with self.mutex (enter)
ConsumeLock(t) ==
    /\ threads[t].pc = "c_lock"
    /\ MutexFree(Buf(t))
    /\ SetBuf(t, [Buf(t) EXCEPT !.mutex = t])
    /\ threads' = [threads EXCEPT ![t].pc = "c_get"]
    /\ UNCHANGED <<clock, delivered>> /\ NoRequest

\* consume: item = self.buffer.get()
ConsumeGet(t) ==
    /\ threads[t].pc = "c_get"
    /\ GetReady(Buf(t))
    /\ SetBuf(t, BufferGet(Buf(t)))
    /\ threads' = [threads EXCEPT ![t].item = HeapTop(Buf(t).queue), ![t].pc = "c_total"]
    /\ UNCHANGED <<clock, delivered>> /\ NoRequest

\* consume: self.total_consumed += 1, then the mutex is released
ConsumeTotal(t) ==
    /\ threads[t].pc = "c_total"
    /\ SetBuf(t, [CountConsumed(Buf(t)) EXCEPT !.mutex = NoThread])
    /\ threads' = [threads EXCEPT ![t].pc = "c_release"]
    /\ UNCHANGED <<clock, delivered>> /\ NoRequest

\* Mutant of ConsumeRelease: the release made on filled_slots
MutantConsumeRelease(t) ==
    /\ threads[t].pc = "c_release"
    /\ SetBuf(t, [Buf(t) EXCEPT !.filled_slots = SemaphoreRelease(@)])
    /\ threads' = [threads EXCEPT ![t].item = NoItem, ![t].pc = "c_loop"]
    /\ delivered' = delivered \cup {threads[t].item.uid}
    /\ UNCHANGED clock /\ NoRequest

\* consume: self.empty_slots.release(); return item
ConsumeRelease(t) ==
    /\ threads[t].pc = "c_release"
    /\ SetBuf(t, [Buf(t) EXCEPT !.empty_slots = SemaphoreRelease(@)])
    /\ threads' = [threads EXCEPT ![t].item = NoItem, ![t].pc = "c_loop"]
    /\ delivered' = delivered \cup {threads[t].item.uid}
    /\ UNCHANGED clock /\ NoRequest

\* produce as one step. The call is empty_slots.acquire(), the block under the
\* mutex, filled_slots.release(): an acquire commutes to the right of the steps of
\* other threads, a release to the left, and the block is serialised by the mutex,
\* so every interleaving of the steps above has the effect of one with the call
\* undivided. The controller is modelled at this grain.
ProduceCall(t) ==
    /\ threads[t].pc = "p_acquire"
    /\ SemaphoreFree(Buf(t).empty_slots)
    /\ MutexFree(Buf(t))
    /\ PutReady(Buf(t))
    /\ LET item == threads[t].item
           acquired == [Buf(t) EXCEPT !.empty_slots = @ - 1]
           counted == CountPriority(CountProduced(BufferPut(acquired, item)), item)
       IN SetBuf(t, [counted EXCEPT !.filled_slots = SemaphoreRelease(@)])
    /\ threads' = [threads EXCEPT
          ![t].item = NoItem,
          ![t].item_counter = @ + 1,
          ![t].pc = IF threads[t].kind = "producer" THEN "p_loop" ELSE "done"]
    /\ UNCHANGED <<clock, delivered>> /\ NoRequest

\* consume as one step, for the same reason
ConsumeCall(t) ==
    /\ threads[t].pc = "c_acquire"
    /\ SemaphoreFree(Buf(t).filled_slots)
    /\ MutexFree(Buf(t))
    /\ GetReady(Buf(t))
    /\ LET acquired == [Buf(t) EXCEPT !.filled_slots = @ - 1]
           counted == CountConsumed(BufferGet(acquired))
       IN SetBuf(t, [counted EXCEPT !.empty_slots = SemaphoreRelease(@)])
    /\ threads' = [threads EXCEPT ![t].pc = "c_loop"]
    /\ delivered' = delivered \cup {HeapTop(Buf(t).queue).uid}
    /\ UNCHANGED clock /\ NoRequest

\* get_stats: with self.mutex (enter)
StatsLock(t) ==
    /\ threads[t].pc = "g_lock"
    /\ MutexFree(Buf(t))
    /\ SetBuf(t, [Buf(t) EXCEPT !.mutex = t])
    /\ threads' = [threads EXCEPT ![t].pc = "g_read"]
    /\ UNCHANGED <<clock, delivered>> /\ NoRequest

\* get_stats: the snapshot is built and returned, the mutex released
StatsRead(t) ==
    /\ threads[t].pc = "g_read"
    /\ SetBuf(t, [Buf(t) EXCEPT !.mutex = NoThread])
    /\ threads' = [threads EXCEPT
          ![t].stats = Snapshot(Buf(t)),
          ![t].pc = "done"]
    /\ UNCHANGED <<clock, delivered>> /\ NoRequest

\* time.time() advances
Tick ==
    /\ clock < MaxClock
    /\ clock' = clock + 1
    /\ UNCHANGED <<bufs, threads, delivered>> /\ NoRequest

--------------------------------------------------------------------------
(* run_simulation *)

MainTid == <<"main", 1, 0>>

\* run_simulation up to the last consumer.start(): one buffer, the producers and
\* the consumers started, the main thread about to join the producers
SimState(num_producers, num_consumers, items_per_producer, buffer_size) ==
    /\ bufs = <<PriorityBuffer(buffer_size)>>
    /\ buffer = 1
    /\ producers = {<<"producer", 1, i>> : i \in 1..num_producers}
    /\ consumers = {<<"consumer", 1, i>> : i \in 1..num_consumers}
    /\ threads = [t \in producers \cup consumers \cup {MainTid} |->
                    IF t \in producers THEN Producer(t[3], 1, items_per_producer)
                    ELSE IF t \in consumers THEN Consumer(t[3], 1)
                    ELSE Thread("main", 1, "m_join", 0, 0)]
    /\ system_running = FALSE
    /\ clock = 0
    /\ delivered = {}
    /\ starting = 0
    /\ nstarts = 0
    /\ response = NoResponse

\* The arguments of run_simulation within the bounds. A buffer_size above the
\* number of items ever produced is left out: such a buffer is never full.
SimArgs(workers, items) ==
    {args \in (1..workers) \X (1..workers) \X (1..items) \X (1..MaxBufferSize) :
        /\ args[1] + args[2] <= workers
        /\ args[1] * args[3] <= items
        /\ args[4] <= args[1] * args[3]}

SimInit ==
    \E args \in SimArgs(MaxWorkers, MaxTotalItems) :
        SimState(args[1], args[2], args[3], args[4])

FairInit ==
    \E args \in SimArgs(FairMaxWorkers, FairMaxTotalItems) :
        SimState(args[1], args[2], args[3], args[4])

\* Mutant of StopAll: stop() that leaves the flag set
MutantStopAll(ts) == threads

\* Consumer.stop (and Producer.stop): self.running = False
StopAll(ts) == [t \in Tids |-> IF t \in ts THEN [threads[t] EXCEPT !.running = FALSE]
                                ELSE threads[t]]

\* run_simulation: producer.join() for every producer (a thread once finished stays
\* finished, so the joins take effect together with what follows them),
\* time.sleep(2), consumer.stop() for every consumer; then buffer.get_stats()
SimJoinStop(t) ==
    /\ threads[t].kind = "main" /\ threads[t].pc = "m_join"
    /\ \A p \in producers : threads[p].pc = "done"
    /\ threads' = [StopAll(consumers) EXCEPT ![t].pc = "g_lock"]
    /\ UNCHANGED <<bufs, clock, delivered>> /\ NoRequest

\* The steps of produce, consume and get_stats, whichever thread makes them
Produce(t) ==
    \/ ProduceAcquire(t)
    \/ ProduceLock(t)
    \/ ProducePut(t)
    \/ ProduceTotal(t)
    \/ ProduceByPriority(t)
    \/ ProduceRelease(t)

Consume(t) ==
    \/ ConsumeAcquire(t)
    \/ ConsumeLock(t)
    \/ ConsumeGet(t)
    \/ ConsumeTotal(t)
    \/ ConsumeRelease(t)

GetStats(t) == StatsLock(t) \/ StatsRead(t)

Worker(t) == ProducerLoop(t) \/ Produce(t) \/ ConsumerLoop(t) \/ Consume(t)

SimNext ==
    \/ \E t \in Tids : ProducerLoop(t)
    \/ \E t \in Tids : Produce(t)
    \/ \E t \in Tids : ConsumerLoop(t)
    \/ \E t \in Tids : Consume(t)
    \/ \E t \in Tids : SimJoinStop(t)
    \/ \E t \in Tids : GetStats(t)

SimSpec == SimInit /\ [][SimNext]_vars

\* The workers of run_simulation with the order of the produce calls recorded
OrderNext ==
    \/ Tick
    \/ \E t \in Tids : ProducerLoopTracked(t)
    \/ \E t \in Tids : Produce(t)
    \/ \E t \in Tids : ConsumerLoop(t)
    \/ \E t \in Tids : Consume(t)

OrderSpec == SimInit /\ [][OrderNext]_vars

\* The workers of run_simulation, never stopped, each scheduled fairly
FairNext == \E t \in Tids : Worker(t)

SimTids == {<<kind, 1, i>> : kind \in {"producer", "consumer"}, i \in 1..FairMaxWorkers}

FairSpec ==
    FairInit /\ [][FairNext]_vars /\ \A t \in SimTids : WF_vars(t \in Tids /\ Worker(t))

\* Producer.stop / Consumer.stop called on one worker, at any moment
StopWorker(t) ==
    /\ t \in producers \cup consumers
    /\ threads[t].running
    /\ threads' = StopAll({t})
    /\ UNCHANGED <<bufs, clock, delivered>> /\ NoRequest

\* The workers of run_simulation, each of which may be stopped at any moment
StopNext ==
    \/ \E t \in Tids : StopWorker(t)
    \/ \E t \in Tids : ProducerLoop(t)
    \/ \E t \in Tids : Produce(t)
    \/ \E t \in Tids : ConsumerLoop(t)
    \/ \E t \in Tids : Consume(t)

StopSpec == FairInit /\ [][StopNext]_vars

--------------------------------------------------------------------------
(* app.py: the controller.  get_status, get_priorities and the socket   *)
(* handlers change no state and are left out.                            *)

\* app.py at import: buffer = None, producers = [], consumers = [],
\* system_running = False, monitor_thread = None
Init ==
    /\ buffer = 0
    /\ producers = {}
    /\ consumers = {}
    /\ system_running = FALSE
    /\ bufs = <<>>
    /\ threads = [t \in {} |-> Thread("none", 0, "done", 0, 0)]
    /\ clock = 0
    /\ delivered = {}
    /\ starting = 0
    /\ nstarts = 0
    /\ response = NoResponse

\* The JSON bodies of /api/start within the bounds:
\* <<num_producers, num_consumers, items_per_producer, buffer_size>>
StartArgs ==
    {args \in (0..AppMaxWorkers) \X (0..AppMaxWorkers) \X (0..AppMaxTotalItems)
                \X (-1..AppMaxBufferSize) :
        /\ args[1] + args[2] <= AppMaxWorkers
        /\ args[1] * args[3] <= AppMaxTotalItems
        /\ args[1] = 0 => args[3] = 0}

\* Mutant of AlreadyRunning: the test of start_system left out
MutantAlreadyRunning == FALSE

\* start_system: if system_running
AlreadyRunning == system_running

\* stop_system: if not system_running
NotRunning == ~system_running

\* start_system: the system_running test; a call that passes goes on to StartBuild
StartCheck ==
    /\ IF AlreadyRunning
       THEN /\ response' = Response("start", "", "AlreadyRunning")
            /\ UNCHANGED <<starting, nstarts>>
       ELSE /\ nstarts < MaxStarts
            /\ starting' = starting + 1
            /\ nstarts' = nstarts + 1
            /\ response' = NoResponse
    /\ UNCHANGED <<buffer, producers, consumers, system_running, bufs, threads, clock,
                   delivered>>

\* The threads start_system starts for the buffer of index session
NewProducers(session, args) == {<<"producer", session, i>> : i \in 1..args[1]}

NewConsumers(session, args) == {<<"consumer", session, i>> : i \in 1..args[2]}

MonitorTid(session) == <<"monitor", session, 0>>

\* Mutant of Launch: the workers handed the first buffer ever constructed
MutantLaunch(session, args) ==
    [t \in NewProducers(session, args) \cup NewConsumers(session, args)
               \cup {MonitorTid(session)} |->
        IF t[1] = "producer" THEN Producer(t[3], 1, args[3])
        ELSE IF t[1] = "consumer" THEN Consumer(t[3], 1)
        ELSE Thread("monitor", 0, "m_loop", 0, 0)]

\* The Producer, Consumer and monitor threads start_system creates and starts
Launch(session, args) ==
    [t \in NewProducers(session, args) \cup NewConsumers(session, args)
               \cup {MonitorTid(session)} |->
        IF t[1] = "producer" THEN Producer(t[3], session, args[3])
        ELSE IF t[1] = "consumer" THEN Consumer(t[3], session)
        ELSE Thread("monitor", 0, "m_loop", 0, 0)]

\* start_system after the test: the request body is read, then the buffer, the
\* producers, the consumers, system_running = True and the monitor thread.
\* PriorityBuffer(max_size) with max_size < 0 raises ValueError in
\* threading.Semaphore: nothing is assigned.
StartBuild(args) ==
    /\ starting > 0
    /\ starting' = starting - 1
    /\ LET session == Len(bufs) + 1
       IN IF args[4] < 0
          THEN /\ response' = Response("start", args, "ValueError")
               /\ UNCHANGED <<buffer, producers, consumers, system_running, bufs, threads>>
          ELSE /\ bufs' = Append(bufs, PriorityBuffer(args[4]))
               /\ buffer' = session
               /\ producers' = NewProducers(session, args)
               /\ consumers' = NewConsumers(session, args)
               /\ threads' = Launch(session, args) @@ threads
               /\ system_running' = TRUE
               /\ response' = Response("start", args, "started")
    /\ UNCHANGED <<clock, delivered, nstarts>>

\* stop_system
StopSystem ==
    /\ IF NotRunning
       THEN /\ response' = Response("stop", "", "NotRunning")
            /\ UNCHANGED <<threads, system_running>>
       ELSE /\ threads' = StopAll(producers \cup consumers)
            /\ system_running' = FALSE
            /\ response' = Response("stop", "", "stopped")
    /\ UNCHANGED <<buffer, producers, consumers, bufs, clock, delivered, starting, nstarts>>

Adders == {t \in Tids : t[1] = "adder"}

\* The priority names add_item is sent: the four names and one that is none
RequestNames == PriorityNames \cup {"URGENT"}

\* Mutant of AddItem: buffer.produce(item) called by the handler itself
MutantAddItem(priority_name, item_data) ==
    /\ IF buffer = 0
       THEN /\ response' = Response("add_item", priority_name, "NotInitialized")
            /\ UNCHANGED <<threads, bufs>>
       ELSE IF PriorityByName(priority_name) = KeyError
       THEN /\ response' = Response("add_item", priority_name, "UnknownPriority")
            /\ UNCHANGED <<threads, bufs>>
       ELSE LET t == <<"adder", Cardinality(Adders) + 1, 0>>
                item == PriorityItem(PriorityByName(priority_name), -1, item_data, clock,
                                     <<t, 0>>, {})
                b == bufs[buffer]
                acquired == [b EXCEPT !.empty_slots = @ - 1]
                counted == CountPriority(CountProduced(BufferPut(acquired, item)), item)
            IN /\ Cardinality(Adders) < MaxManual
               /\ SemaphoreFree(b.empty_slots)
               /\ bufs' = [bufs EXCEPT ![buffer] =
                              [counted EXCEPT !.filled_slots = SemaphoreRelease(@)]]
               /\ threads' = (t :> [Thread("adder", buffer, "done", 0, 0)
                                       EXCEPT !.item_counter = 1]) @@ threads
               /\ response' = Response("add_item", priority_name, "added")
    /\ UNCHANGED <<buffer, producers, consumers, system_running, clock, delivered,
                   starting, nstarts>>

\* add_item: `if not buffer`, then Priority[priority_name], whose KeyError is
\* answered with status 400, then the item with item_id -1 and the thread that
\* runs buffer.produce(item)
AddItem(priority_name, item_data) ==
    /\ IF buffer = 0
       THEN /\ response' = Response("add_item", priority_name, "NotInitialized")
            /\ UNCHANGED threads
       ELSE IF PriorityByName(priority_name) = KeyError
       THEN /\ response' = Response("add_item", priority_name, "UnknownPriority")
            /\ UNCHANGED threads
       ELSE LET t == <<"adder", Cardinality(Adders) + 1, 0>>
                item == PriorityItem(PriorityByName(priority_name), -1, item_data, clock,
                                     <<t, 0>>, {})
            IN /\ Cardinality(Adders) < MaxManual
               /\ threads' = (t :> [Thread("adder", buffer, "p_acquire", 0, 0)
                                       EXCEPT !.item = item]) @@ threads
               /\ response' = Response("add_item", priority_name, "added")
    /\ UNCHANGED <<buffer, producers, consumers, system_running, bufs, clock, delivered,
                   starting, nstarts>>

\* monitor_buffer: one turn of `while system_running`. get_stats only reads under
\* the mutex and its result is emitted, so a turn is one step that changes nothing;
\* the thread ends at the first test that finds system_running False.
MonitorLoop(t) ==
    /\ threads[t].kind = "monitor" /\ threads[t].pc = "m_loop"
    /\ system_running /\ buffer # 0 => MutexFree(bufs[buffer])
    /\ threads' = [threads EXCEPT ![t].pc = IF system_running THEN "m_loop" ELSE "done"]
    /\ UNCHANGED <<bufs, clock, delivered>> /\ NoRequest

Next ==
    \/ StartCheck
    \/ \E args \in StartArgs : StartBuild(args)
    \/ StopSystem
    \/ \E name \in RequestNames, data \in ManualData : AddItem(name, data)
    \/ \E t \in Tids : ProducerLoop(t)
    \/ \E t \in Tids : ProduceCall(t)
    \/ \E t \in Tids : ConsumerLoop(t)
    \/ \E t \in Tids : ConsumeCall(t)
    \/ \E t \in Tids : MonitorLoop(t)

Spec == Init /\ [][Next]_vars

\* One session: the state start_system leaves when called first, then add_item
\* calls and the workers, never stopped, each thread scheduled fairly
ManualInit ==
    \E args \in StartArgs :
        /\ args[4] >= 0
        /\ bufs = <<PriorityBuffer(args[4])>>
        /\ buffer = 1
        /\ producers = NewProducers(1, args)
        /\ consumers = NewConsumers(1, args)
        /\ threads = Launch(1, args)
        /\ system_running = TRUE
        /\ clock = 0
        /\ delivered = {}
        /\ starting = 0
        /\ nstarts = 1
        /\ response = Response("start", args, "started")

\* The priority names add_item is sent in ManualSpec: the most urgent, the least
\* urgent and one that is none
ManualNames == {"CRITICAL", "LOW", "URGENT"}

ManualNext ==
    \/ \E name \in ManualNames, data \in ManualData : AddItem(name, data)
    \/ \E t \in Tids : ProducerLoop(t)
    \/ \E t \in Tids : ProduceCall(t)
    \/ \E t \in Tids : ConsumerLoop(t)
    \/ \E t \in Tids : ConsumeCall(t)

\* The threads a session of ManualSpec can have
AdderTids == {<<"adder", k, 0>> : k \in 1..MaxManual}

ManualTids ==
    {<<kind, 1, i>> : kind \in {"producer", "consumer"}, i \in 1..AppMaxWorkers}
        \cup AdderTids

CallWorker(t) == ProducerLoop(t) \/ ProduceCall(t) \/ ConsumerLoop(t) \/ ConsumeCall(t)

ManualSpec ==
    ManualInit /\ [][ManualNext]_vars
        /\ \A t \in ManualTids : WF_vars(t \in Tids /\ CallWorker(t))

--------------------------------------------------------------------------
(* Properties of the buffer *)

Buffers == DOMAIN bufs

\* The threads working on buffer i whose program counter is in pcs
At(i, pcs) == {t \in Tids : threads[t].buf = i /\ threads[t].pc \in pcs}

QueueUids(b) == {b.queue[j].uid : j \in DOMAIN b.queue}

SumByPriority(counts) == counts[CRITICAL] + counts[HIGH] + counts[MEDIUM] + counts[LOW]

\* C1: in every reachable state the number of items a buffer holds is at least 0
\* and at most its max_size.
C1_SizeWithinCapacity ==
    \A i \in Buffers : 0 <= Len(bufs[i].queue) /\ Len(bufs[i].queue) <= bufs[i].max_size

\* A full buffer with a producer waiting for a slot
C1_Witness ==
    \E i \in Buffers :
        /\ Len(bufs[i].queue) = bufs[i].max_size
        /\ bufs[i].empty_slots = 0
        /\ At(i, {"p_acquire"}) # {}

StatsConsistent(st) ==
    /\ st.total_produced - st.total_consumed = st.size
    /\ 0 <= st.size /\ st.size <= st.max_size

\* C2: whenever the mutex of a buffer is not held, total_produced - total_consumed
\* is the number of items in it; and every snapshot get_stats has returned has
\* total_produced - total_consumed = size with size in [0, max_size].
C2_CountersMatchSize ==
    /\ \A i \in Buffers :
          bufs[i].mutex = NoThread =>
              bufs[i].total_produced - bufs[i].total_consumed = Len(bufs[i].queue)
    /\ \A t \in Tids : threads[t].stats # NoStats => StatsConsistent(threads[t].stats)

\* A snapshot taken after a consume, of a buffer that still holds an item
C2_Witness ==
    \E t \in Tids :
        /\ threads[t].stats # NoStats
        /\ threads[t].stats.size >= 1
        /\ threads[t].stats.total_consumed >= 1

RECURSIVE Drain(_)
\* The items of a heap in the order repeated heappop returns them
Drain(heap) == IF heap = <<>> THEN <<>> ELSE <<HeapTop(heap)>> \o Drain(HeapPop(heap))

RECURSIVE PushAll(_, _)
\* The heap after heappush of every item of items, in order
PushAll(heap, items) ==
    IF items = <<>> THEN heap ELSE PushAll(HeapPush(heap, Head(items)), Tail(items))

NonDecreasing(items) ==
    \A j \in 1..(Len(items) - 1) : items[j].priority <= items[j + 1].priority

\* One producer's items with the priorities [LOW, CRITICAL, MEDIUM, HIGH]
ExampleItems ==
    [j \in 1..4 |->
        PriorityItem(<<LOW, CRITICAL, MEDIUM, HIGH>>[j], j - 1, ProducerData(1, j - 1), 0,
                     <<<<"producer", 1, 1>>, j - 1>>, {})]

\* The priorities of ExampleItems in the order they are consumed
ExampleConsumed ==
    [j \in 1..4 |-> Drain(PushAll(<<>>, ExampleItems))[j].priority]

\* C3: the item a consume call removes has the least priority value of all the
\* items the buffer held at that moment; so the items of a buffer left to
\* consume alone come out in non-decreasing priority value, and items produced as
\* [LOW, CRITICAL, MEDIUM, HIGH] are consumed as [CRITICAL, HIGH, MEDIUM, LOW].
C3_MostUrgentFirst ==
    /\ \A t \in Tids :
          threads[t].pc = "c_total" =>
              \A j \in DOMAIN Buf(t).queue :
                  threads[t].item.priority <= Buf(t).queue[j].priority
    /\ \A i \in Buffers : NonDecreasing(Drain(bufs[i].queue))
    /\ ExampleConsumed = <<CRITICAL, HIGH, MEDIUM, LOW>>

\* A consumer has removed the second item of a producer while the first, less
\* urgent, is still in the buffer
C3_Witness ==
    \E t \in Tids :
        /\ threads[t].pc = "c_total"
        /\ \E j \in DOMAIN Buf(t).queue :
              /\ Buf(t).queue[j].uid[1] = threads[t].item.uid[1]
              /\ Buf(t).queue[j].item_id < threads[t].item.item_id
              /\ Buf(t).queue[j].priority > threads[t].item.priority

\* C4: of two items of equal priority in the buffer together, the one whose
\* produce call had completed before the produce call of the other began is
\* consumed first: no consume removes an item while the buffer still holds one
\* recorded in its after field.
C4_FifoWithinPriority ==
    \A t \in Tids :
        threads[t].pc = "c_total" =>
            \A j \in DOMAIN Buf(t).queue :
                Buf(t).queue[j].uid \notin threads[t].item.after

\* History: the items thread t has put into its buffer
InsertedBy(t) ==
    {<<t, n>> : n \in 0..(threads[t].item_counter - 1)}
        \cup (IF threads[t].pc \in {"p_total", "p_byprio", "p_release"}
              THEN {<<t, threads[t].item_counter>>} ELSE {})

\* The consumers that hold a removed item they have not returned yet
Holding == {t \in Tids : threads[t].pc \in {"c_total", "c_release"}}

\* C5: an item put into a buffer is returned by at most one consume call and every
\* item returned or removed was put in by a produce call: no item is twice in a
\* queue, in the hands of two consumers, or both removed and still queued; and no
\* more consumers are past filled_slots.acquire() than the buffer holds items, so
\* with one item available one consumer proceeds and the others stay blocked.
C5_DeliveredOnce ==
    /\ \A i \in Buffers : Cardinality(QueueUids(bufs[i])) = Len(bufs[i].queue)
    /\ \A t \in Holding :
          /\ threads[t].item.uid \notin QueueUids(Buf(t))
          /\ threads[t].item.uid \notin delivered
          /\ \A u \in Holding \ {t} : threads[u].item.uid # threads[t].item.uid
    /\ \A i \in Buffers : QueueUids(bufs[i]) \cap delivered = {}
    /\ \A t \in Holding : threads[t].item.uid \in InsertedBy(threads[t].item.uid[1])
    /\ \A uid \in delivered : uid \in InsertedBy(uid[1])
    /\ \A i \in Buffers : Cardinality(At(i, {"c_lock", "c_get"})) <= Len(bufs[i].queue)

\* Two consumers and one item: one has removed it, the other waits in acquire()
C5_Witness ==
    \E i \in Buffers :
        /\ bufs[i].total_produced = 1
        /\ bufs[i].filled_slots = 0
        /\ At(i, {"c_total"}) # {}
        /\ At(i, {"c_acquire"}) # {}

RECURSIVE Budget(_)
\* The items the producers in ps produce together if never stopped
Budget(ps) ==
    IF ps = {} THEN 0
    ELSE LET t == CHOOSE x \in ps : TRUE IN threads[t].num_items + Budget(ps \ {t})

\* Every item of every producer has been produced and consumed
AllConsumed ==
    /\ bufs[buffer].total_produced = Budget(producers)
    /\ bufs[buffer].total_consumed = Budget(producers)
    /\ bufs[buffer].queue = <<>>

\* C6: with N producers of budget K each and M consumers, no stop and every thread
\* scheduled fairly, eventually total_produced = total_consumed = N*K with the
\* buffer empty; and total_consumed never exceeds N*K.
C6_AllItemsConsumed ==
    /\ <>AllConsumed
    /\ [](bufs[buffer].total_consumed <= Budget(producers))

\* The two items of a producer consumed
C6_Witness ==
    /\ AllConsumed
    /\ Budget(producers) >= 2

\* A producer waits in empty_slots.acquire() and the buffer has room
RoomForWaiting(i, n) ==
    /\ At(i, {"p_acquire"}) # {}
    /\ Len(bufs[i].queue) < bufs[i].max_size
    /\ bufs[i].total_produced = n

\* C7: a produce call does not put its item while the buffer holds max_size items
\* (a thread about to put finds room, and a full buffer has no free slot and no
\* producer past acquire()); and once the buffer has room while a producer waits,
\* some insert eventually completes, under fair scheduling.
C7_BlocksWhileFull ==
    /\ [](\A t \in Tids : threads[t].pc = "p_put" =>
              Len(Buf(t).queue) < Buf(t).max_size)
    /\ [](\A i \in Buffers :
              Len(bufs[i].queue) = bufs[i].max_size =>
                  bufs[i].empty_slots = 0 /\ At(i, {"p_lock", "p_put"}) = {})
    /\ \A n \in 0..FairMaxTotalItems :
          RoomForWaiting(1, n) ~> (bufs[1].total_produced > n)

\* A producer waits for a slot of a buffer from which a consumer has removed an
\* item without having released the slot yet
C7_Witness ==
    \E i \in Buffers :
        /\ At(i, {"p_acquire"}) # {}
        /\ bufs[i].empty_slots = 0
        /\ At(i, {"c_total", "c_release"}) # {}
        /\ Len(bufs[i].queue) = bufs[i].max_size - 1

\* One step changes a per-priority count only by adding one, in the step of
\* produce that counts an item of that priority
CountStep ==
    \A i \in Buffers : \A p \in Priority :
        \/ bufs'[i].items_by_priority[p] = bufs[i].items_by_priority[p]
        \/ /\ bufs'[i].items_by_priority[p] = bufs[i].items_by_priority[p] + 1
           /\ \E t \in Tids :
                 /\ threads[t].buf = i
                 /\ threads[t].pc = "p_byprio" /\ threads'[t].pc = "p_release"
                 /\ threads[t].item.priority = p

\* C8: whenever the mutex is not held the per-priority counts sum to
\* total_produced; a count changes only by one, in a produce of an item of its
\* priority; consume and get_stats leave it unchanged and it never decreases.
C8_CountsByPriority ==
    /\ [](\A i \in Buffers :
              bufs[i].mutex = NoThread =>
                  SumByPriority(bufs[i].items_by_priority) = bufs[i].total_produced)
    /\ [][CountStep]_vars

\* A snapshot with two priorities counted once each and an item consumed
C8_Witness ==
    \E t \in Tids :
        /\ threads[t].stats # NoStats
        /\ threads[t].stats.total_consumed >= 1
        /\ \E p, q \in Priority :
              /\ p # q
              /\ threads[t].stats.items_by_priority[p] = 1
              /\ threads[t].stats.items_by_priority[q] = 1

--------------------------------------------------------------------------
(* Properties of the controller *)

\* The items of the buffers and their counters and semaphores
BufferStates == [i \in DOMAIN bufs |-> [bufs[i] EXCEPT !.mutex = NoThread]]

\* C9: a start_system call made while system_running is answered AlreadyRunning
\* and changes neither the buffer, the producers, the consumers nor
\* system_running (no call passes the test while system_running); a stop_system
\* call made while not system_running is answered NotRunning and changes no
\* thread (a worker's running flag is cleared only while system_running).
C9_RejectedStartAndStop ==
    [][/\ response'.status = "AlreadyRunning" =>
            /\ system_running
            /\ UNCHANGED <<buffer, producers, consumers, system_running, bufs, threads,
                           starting, nstarts>>
       /\ nstarts' # nstarts => ~system_running
       /\ response'.status = "NotRunning" =>
            /\ ~system_running
            /\ UNCHANGED <<buffer, producers, consumers, system_running, bufs, threads>>
       /\ (\E t \in Tids : threads[t].running /\ ~threads'[t].running) =>
            /\ system_running
            /\ response'.status = "stopped"]_vars

\* A start_system call has just been rejected while workers of a session exist
C9_Witness ==
    /\ response.status = "AlreadyRunning"
    /\ system_running
    /\ producers \cup consumers # {}

\* C10: an add_item call whose priority name is none of CRITICAL, HIGH, MEDIUM,
\* LOW is answered with an error (UnknownPriority once a buffer exists) and starts
\* no thread: the threads, the queues, total_produced, total_consumed,
\* items_by_priority and both semaphores of every buffer stay as they were.
C10_UnknownPriorityRejected ==
    [][response'.request = "add_item" /\ response'.input \notin PriorityNames =>
            /\ response'.status \in {"UnknownPriority", "NotInitialized"}
            /\ buffer # 0 => response'.status = "UnknownPriority"
            /\ Tids' = Tids
            /\ BufferStates' = BufferStates
            /\ UNCHANGED <<buffer, producers, consumers, system_running, bufs, threads>>]_vars

\* An unknown name has just been rejected while the buffer holds an item
C10_Witness ==
    /\ response = Response("add_item", "URGENT", "UnknownPriority")
    /\ buffer # 0
    /\ Len(bufs[buffer].queue) > 0

\* C11: a start_system call with num_producers, num_consumers,
\* items_per_producer or buffer_size at or below 0 is not answered as started,
\* and no buffer has a max_size below 1.
C11_InvalidConfigRejected ==
    /\ response.status = "started" => \A k \in 1..4 : response.input[k] >= 1
    /\ \A i \in Buffers : bufs[i].max_size >= 1

\* The thread of an add_item call waits for a slot / has returned from produce
AdderWaiting(t) == t \in Tids /\ threads[t].pc = "p_acquire"

AdderDone(t) == t \in Tids /\ threads[t].pc = "done"

\* The step in which the thread of an add_item call inserts its item
AdderInsert ==
    \A t \in Adders :
        threads[t].pc = "p_acquire" /\ threads'[t].pc # "p_acquire" =>
            /\ Buf(t).empty_slots > 0
            /\ bufs'[threads[t].buf].total_produced = Buf(t).total_produced + 1
            /\ threads[t].item.uid \in QueueUids(bufs'[threads[t].buf])
            /\ threads'[t].pc = "done"

C13_StopIsAsynchronous ==
    /\ [](system_running => ENABLED (StopSystem /\ response'.status = "stopped"))
    /\ [][response'.status = "stopped" =>
            /\ system_running /\ ~system_running'
            /\ \A t \in producers \cup consumers :
                  /\ ~threads'[t].running
                  /\ threads'[t] = [threads[t] EXCEPT !.running = FALSE]
            /\ \A t \in Tids \ (producers \cup consumers) : threads'[t] = threads[t]
            /\ UNCHANGED <<buffer, producers, consumers, bufs>>]_vars
    /\ [](~system_running =>
            /\ ENABLED (StopSystem /\ response'.status = "NotRunning")
            /\ ~ENABLED (StopSystem /\ response'.status = "stopped")
            /\ nstarts < MaxStarts => ENABLED (StartCheck /\ nstarts' = nstarts + 1))

\* stop_system has just been answered while a consumer of the session is blocked
\* in consume and a producer has not finished
C13_Witness ==
    /\ response.status = "stopped"
    /\ \E t \in producers \cup consumers :
          threads[t].pc \in {"c_acquire", "p_acquire", "p_loop"} /\ ~threads[t].running

\* The producer and consumer threads launched for the buffer of index i
SessionWorkers(i) == {t \in Tids : t[1] \in {"producer", "consumer"} /\ t[2] = i}

\* The step that start_system answers as started
FreshStart ==
    response'.status = "started" =>
        /\ Len(bufs') = Len(bufs) + 1
        /\ buffer' = Len(bufs')
        /\ \A i \in Buffers : bufs'[i] = bufs[i]
        /\ bufs'[buffer'].queue = <<>>
        /\ bufs'[buffer'].total_produced = 0
        /\ bufs'[buffer'].total_consumed = 0
        /\ \A p \in Priority : bufs'[buffer'].items_by_priority[p] = 0
        /\ (producers' \cup consumers') \cap Tids = {}
        /\ \A t \in producers' \cup consumers' : threads'[t].buf = buffer'

\* A step changes the queue or a counter of buffer i only as a step of a thread
\* that works on buffer i, and a worker keeps its buffer
OwnBufferOnly ==
    /\ \A i \in Buffers :
          bufs'[i] # bufs[i] =>
              \E t \in Tids : threads[t].buf = i /\ threads'[t] # threads[t]
    /\ \A t \in Tids : threads'[t].buf = threads[t].buf

--------------------------------------------------------------------------
(* Properties of stopping *)

\* The program counters at the loop test of a worker, and those inside a buffer
\* operation past its acquire()
AtLoop == {"p_loop", "c_loop"}

InOperation == {"p_lock", "p_put", "p_total", "p_byprio", "p_release",
                "c_lock", "c_get", "c_total", "c_release"}

\* What a step may do to a worker whose running flag is False
StoppedStep(t) ==
    /\ ~threads'[t].running
    /\ threads[t].pc \in AtLoop => threads'[t].pc \in {threads[t].pc, "done"}
    /\ threads[t].pc = "done" => threads'[t] = threads[t]
    /\ threads'[t].item_counter # threads[t].item_counter =>
          threads[t].pc = "p_release" /\ threads'[t].pc = "p_loop"
    /\ threads[t].pc = "c_release" => threads'[t].pc \in {"c_release", "c_loop"}

\* C15: the step that clears a worker's running flag changes nothing else, so an
\* operation in progress goes on (its next statement is taken whatever the flag
\* says, once the lock is free); a worker whose flag is False never has it set
\* again, and from its loop test its only step is out of the loop: so it completes
\* at most the produce or consume call it is in, and starts no other.
C15_StopAtLoopBoundary ==
    /\ [][\A t \in Tids :
            threads[t].running /\ ~threads'[t].running =>
                /\ threads'[t] = [threads[t] EXCEPT !.running = FALSE]
                /\ bufs' = bufs]_vars
    /\ [][\A t \in Tids : ~threads[t].running => StoppedStep(t)]_vars
    /\ [](\A t \in Tids :
              /\ ~threads[t].running
              /\ threads[t].pc \in InOperation
              /\ threads[t].pc \in {"p_lock", "c_lock"} => MutexFree(Buf(t))
              => ENABLED Worker(t))

\* A producer stopped before its budget has left its loop, and a consumer whose
\* flag is False is completing a consume call
C15_Witness ==
    /\ \E t \in producers :
          /\ ~threads[t].running /\ threads[t].pc = "done"
          /\ 1 <= threads[t].item_counter /\ threads[t].item_counter < threads[t].num_items
    /\ \E t \in consumers : ~threads[t].running /\ threads[t].pc = "c_total"

\* What a step may do to a consumer
ConsumerStep(t) ==
    /\ threads[t].pc = "c_acquire" /\ threads'[t].pc # "c_acquire" =>
          /\ Buf(t).filled_slots > 0
          /\ Buf(t).total_produced > Buf(t).total_consumed
          /\ threads'[t].pc = "c_lock"
    /\ threads[t].pc # "done" /\ threads'[t].pc = "done" =>
          threads[t].pc = "c_loop" /\ ~threads[t].running

\* C16: a consumer inside consume on a buffer without a filled slot has no step,
\* whether its running flag is set or not; it leaves filled_slots.acquire() only
\* by taking a permit that a produce has released, and it leaves its loop only
\* from the loop test, after its consume call has returned. (That a stopped
\* consumer can stay blocked for ever is the state of C16_Witness, which has no
\* successor.)
C16_BlockedConsumerIgnoresStop ==
    /\ [](\A t \in consumers :
              threads[t].pc = "c_acquire" /\ Buf(t).filled_slots = 0 =>
                  ~ENABLED Worker(t))
    /\ [][\A t \in consumers : ConsumerStep(t)]_vars

\* Every producer has finished, the buffer is empty and every consumer, stopped,
\* is blocked in consume: no thread has a step
C16_Witness ==
    /\ consumers # {}
    /\ \A t \in consumers :
          ~threads[t].running /\ threads[t].pc = "c_acquire" /\ Buf(t).filled_slots = 0
    /\ \A t \in producers : threads[t].pc = "done"
    /\ bufs[buffer].queue = <<>>
    /\ bufs[buffer].total_produced >= 1
    /\ ~ENABLED StopNext

--------------------------------------------------------------------------
(* Properties of the producer *)

\* Every item that is in a buffer, in the hands of a consumer or delivered
ItemsOut ==
    UNION {QueueUids(bufs[i]) : i \in Buffers}
        \cup {threads[t].item.uid : t \in Holding} \cup delivered

\* The items a producer holds or has queued carry as item_id the value its
\* item_counter had when they were made
IdsInOrder ==
    /\ \A t \in producers :
          threads[t].item # NoItem => threads[t].item.item_id = threads[t].item_counter
    /\ \A i \in Buffers : \A j \in DOMAIN bufs[i].queue :
          bufs[i].queue[j].item_id = bufs[i].queue[j].uid[2]

\* C17: a producer's item_counter never exceeds num_items and only grows by one,
\* when a produce call returns; the items it has inserted are exactly those with
\* the item ids 0 .. item_counter - 1 (and the one being inserted), each once; and,
\* never stopped and scheduled fairly with consumers freeing slots, it ends its run
\* with item_counter = num_items: after exactly num_items produce calls.
C17_ProducerBudget ==
    /\ [](\A t \in producers :
              /\ threads[t].item_counter <= threads[t].num_items
              /\ {uid \in ItemsOut : uid[1] = t} = InsertedBy(t)
              /\ threads[t].pc = "done" => threads[t].item_counter = threads[t].num_items)
    /\ []IdsInOrder
    /\ [][\A t \in producers :
            \/ threads'[t].item_counter = threads[t].item_counter
            \/ /\ threads'[t].item_counter = threads[t].item_counter + 1
               /\ threads[t].pc = "p_release"]_vars
    /\ <>(\A t \in producers : threads[t].pc = "done")

\* A producer has finished its budget of two items, ids 0 and 1, both consumed
C17_Witness ==
    \E t \in producers :
        /\ threads[t].pc = "done"
        /\ threads[t].num_items = 2
        /\ {<<t, 0>>, <<t, 1>>} \subseteq delivered

--------------------------------------------------------------------------
(* Properties of the mutex *)

\* The statements still to run under the mutex, by program counter
UnderMutex(pc) ==
    CASE pc = "p_put" -> 3
      [] pc = "p_total" -> 2
      [] pc = "p_byprio" -> 1
      [] pc = "c_get" -> 2
      [] pc = "c_total" -> 1
      [] pc = "g_read" -> 1
      [] OTHER -> 0

\* The thread that holds the mutex is at a statement of a `with self.mutex` block
\* of that buffer and that statement can be taken
HolderRuns(i) ==
    LET h == bufs[i].mutex
    IN h # NoThread =>
          /\ h \in Tids
          /\ threads[h].buf = i
          /\ UnderMutex(threads[h].pc) > 0
          /\ ENABLED (Produce(h) \/ Consume(h) \/ GetStats(h))

\* A thread holds the mutex exactly while it is inside a `with self.mutex` block
\* (so none holds it while waiting in acquire()), and every step of the holder
\* brings it nearer the end of the block
MutexStep ==
    \A i \in Buffers :
        LET h == bufs[i].mutex
        IN h # NoThread =>
              /\ bufs'[i].mutex \in {h, NoThread}
              /\ threads'[h].pc # threads[h].pc =>
                    UnderMutex(threads'[h].pc) < UnderMutex(threads[h].pc)
              /\ bufs'[i].mutex = NoThread => UnderMutex(threads'[h].pc) = 0

\* C18: no thread waits while it holds the mutex of a buffer: the holder is always
\* at a statement under the mutex that it can take, the put under the mutex finds
\* the inner queue not full and the get finds it not empty, and a thread not under
\* the mutex (waiting in acquire() or elsewhere) does not hold it; the holder
\* releases the mutex after at most three of its own steps.
C18_NoWaitUnderMutex ==
    /\ [](\A i \in Buffers : HolderRuns(i))
    /\ [](\A t \in Tids :
              /\ threads[t].pc = "p_put" => PutReady(Buf(t))
              /\ threads[t].pc = "c_get" => GetReady(Buf(t))
              /\ UnderMutex(threads[t].pc) > 0 <=> Buf(t).mutex = t)
    /\ [][MutexStep]_vars

\* A consumer holds the mutex of a full buffer, about to get, while a producer
\* waits for an empty slot
C18_Witness ==
    \E i \in Buffers :
        /\ bufs[i].mutex # NoThread
        /\ threads[bufs[i].mutex].pc = "c_get"
        /\ bufs[i].empty_slots = 0
        /\ At(i, {"p_acquire"}) # {}

--------------------------------------------------------------------------
(* Properties of overlapping requests *)

\* C19: start_system builds a session only while none is active, also when calls
\* overlap: the step answered as started is taken with system_running False, and
\* every producer or consumer that is running works on the buffer the controller
\* references and is in its producers or consumers list.
C19_OneSessionAtATime ==
    [][/\ response'.status = "started" => ~system_running
       /\ \A t \in Tids' :
            /\ t[1] \in {"producer", "consumer"}
            /\ threads'[t].running
            /\ threads'[t].pc # "done"
            => threads'[t].buf = buffer' /\ t \in producers' \cup consumers']_vars

--------------------------------------------------------------------------
(* Properties of the semaphores *)

\* The threads on buffer i that hold a permit of empty_slots and have not released
\* filled_slots yet, and those that hold one of filled_slots and have not released
\* empty_slots yet
Inserting(i) == At(i, {"p_lock", "p_put", "p_total", "p_byprio", "p_release"})

Removing(i) == At(i, {"c_lock", "c_get", "c_total", "c_release"})

\* C20: for every buffer, empty_slots + filled_slots + the threads between their
\* acquire() and the release() of the other semaphore = max_size. filled_slots
\* counts the items in the queue less those a consumer has a permit for and those
\* whose insert has not released yet, so it never exceeds the number of items and
\* every insert releases it once; empty_slots counts the free places less those a
\* producer has a permit for and those whose removal has not released yet, so every
\* removal releases it once.
C20_PermitConservation ==
    \A i \in Buffers :
        /\ bufs[i].empty_slots >= 0 /\ bufs[i].filled_slots >= 0
        /\ bufs[i].empty_slots + bufs[i].filled_slots
              + Cardinality(Inserting(i)) + Cardinality(Removing(i)) = bufs[i].max_size
        /\ bufs[i].filled_slots <= Len(bufs[i].queue)
        /\ bufs[i].filled_slots + Cardinality(At(i, {"c_lock", "c_get"}))
              + Cardinality(At(i, {"p_total", "p_byprio", "p_release"}))
              = Len(bufs[i].queue)
        /\ bufs[i].empty_slots + Cardinality(At(i, {"p_lock", "p_put"}))
              + Cardinality(At(i, {"c_total", "c_release"}))
              = bufs[i].max_size - Len(bufs[i].queue)

\* A buffer of two slots with no permit left on either semaphore: one producer and
\* one consumer are each between their acquire() and their release()
C20_Witness ==
    \E i \in Buffers :
        /\ bufs[i].max_size = 2
        /\ bufs[i].empty_slots = 0 /\ bufs[i].filled_slots = 0
        /\ Inserting(i) # {} /\ Removing(i) # {}

==========================================================================
